---- MODULE Spec2Model ----
(***************************************************************************)
(* OnlyFacts: the Fact store and the vote API of the Express/Mongoose      *)
(* servers.                                                                *)
(*                                                                         *)
(* Two server variants are modelled:                                       *)
(*   "A"  src/server/index.js (both copies in the file): validates the     *)
(*        body, answers 404 for an unknown id, lets a voter change the     *)
(*        vote, and calls  fact.save().maxTimeMS(5000).                    *)
(*   "B"  src/unnamed/part_002 and part_003: no validation, no null check  *)
(*        of the Fact, rejects every repeat vote, awaits fact.save().      *)
(*                                                                         *)
(* A vote handler has two awaits, so it is two steps: VoteRequest (the     *)
(* handler up to and including the call of fact.save(), with the document  *)
(* findById returned) and VoteSave (the update reaching the collection).   *)
(* Validation touches no shared state, so it is part of VoteRequest.       *)
(*                                                                         *)
(* fact.save() of a loaded document sends the modified paths only: $set    *)
(* for a counter that was assigned, $push (and $inc __v) for voters.push,  *)
(* and $set voters.<i>.vote guarded by the __v the document was read with. *)
(*                                                                         *)
(* fact.save() returns a Promise, which has no maxTimeMS: in variant A the *)
(* call throws a TypeError after the save has been started, so the catch   *)
(* block answers while the update is still on its way to the collection.   *)
(*                                                                         *)
(* The servers also differ in the routes that check the readiness flag     *)
(* isReady before their handler runs: all three in src/server/index.js     *)
(* (checkDatabaseReady), GET only in the second server of part_003, none   *)
(* in part_002 and the first server of part_003, which have no flag.       *)
(*                                                                         *)
(* Specifications:                                                         *)
(*   Spec, SpecSeq, SpecApi  the request handlers of a server that is up   *)
(*   SpecFail    the same handlers when the storage rejects a save         *)
(*   SpecProc    the process from the load of its program: connection,     *)
(*               retry loops, connection events, signals and shutdown      *)
(*   SpecRetry   the connection and its retry loops alone, with fairness   *)
(*   SpecClient  the page of part_000 with the server it reads from        *)
(***************************************************************************)
EXTENDS Integers, Sequences, FiniteSets, TLC

\* Bounds of the model.
MaxReq == 4
MaxFacts == 1
MaxInFlight == 2
\* Bounds of the specification of the whole API (SpecApi).
MaxStore == 2
MaxApiReq == 2
MaxClock == 1
\* Bounds of the specification of the process (SpecProc): the invocations of
\* connectWithRetry and the signals sent to the process in one run.
MaxLoops == 2
MaxSignals == 1
MaxProcReq == 1
\* Bound of the specification of the client (SpecClient): the handleVote calls.
MaxCalls == 3

\* An absent (undefined) or empty JSON property.
NONE == "none"

Variants == {"A", "B"}
Users == {"u1", "u2"}
UserIds == Users \cup {NONE}
VoteTypes == {"agree", "disagree"}
TypeInputs == VoteTypes \cup {"maybe", NONE}
Contents == {"text", NONE}
\* The routes that check isReady: every route, GET /api/facts only, no route.
Gates == {"all", "get", "none"}
Routes == {"get", "create", "vote"}

\* The five server programs: the two copies in src/server/index.js, part_002 and the
\* two servers of part_003.
Servers == {"index_1", "index_2", "part_002", "part_003_1", "part_003_2"}

\* The vote handler each server has and the routes of it that check isReady.
serverVariant(s) == IF s \in {"index_1", "index_2"} THEN "A" ELSE "B"

serverGate(s) ==
    IF s \in {"index_1", "index_2"} THEN "all"
    ELSE IF s = "part_003_2" THEN "get" ELSE "none"

\* The servers that connect with connectWithRetry and keep the flag isReady.
hasRetry(s) == s \in {"index_1", "index_2", "part_003_2"}

VARIABLES
    variant,     \* which server is running
    facts,       \* the facts collection: facts[id] is the stored document
    inflight,    \* the handlers awaiting fact.save(): <<[req, delta]>>
    nreq,        \* the number of vote requests that have arrived
    last,        \* the last response sent to a vote request, with its request
    okVotes,     \* per Fact and choice, the number of votes answered 200
    createResp,  \* the response to the last POST /api/fact
    gate,        \* which routes of the running server check isReady
    isReady,     \* the readiness flag (let isReady)
    now,         \* the clock new Date() reads
    createReq,   \* the content of the last POST /api/fact
    getResp,     \* the response to the last GET of the current fact
    server,      \* which of the five server programs the process runs
    proc,        \* the process: "running", or "exit0", "exit1", "killed"
    http,        \* the HTTP server: "off", "listening", "closing", "closed"
    readyState,  \* mongoose.connection.readyState (0 to 3)
    loops,       \* the invocations of connectWithRetry (of connectDB, of connect)
    listeners,   \* the registered once('connected') listeners
    starts,      \* the number of calls of startServer
    shutdown,    \* the shutdown callbacks waiting for a close to finish
    signals,     \* the number of signals the process has received
    handlers,    \* the handlers of the delivered signal that have not run yet
    saveError,   \* the request ("vote", "create") whose save the storage has just rejected
    marker,      \* localStorage: the vote marker of the Fact on the page
    calls        \* the handleVote calls of the browser

\* The state of the process around the request handlers.
procVars == <<server, proc, http, readyState, loops, listeners, starts, shutdown,
             signals, handlers>>

\* The state of the process a step of a retry loop leaves alone.
loopFrame == <<server, proc, http, readyState, listeners, starts, shutdown, signals,
               handlers>>

\* The state of the browser.
clientVars == <<marker, calls>>

vars == <<variant, facts, inflight, nreq, last, okVotes, createResp,
          gate, isReady, now, createReq, getResp, procVars, saveError, clientVars>>

\* What the request handlers of a working storage leave alone.
outerVars == <<procVars, saveError, clientVars>>

\* The variables the vote handlers leave alone.
apiVars == <<gate, isReady, now, createReq, getResp>>

FactIds == 1..MaxFacts
StoreIds == 1..MaxStore

----------------------------------------------------------------------------
factSchema_Epoch(content, publishedAt) ==
    [content |-> content, publishedAt |-> 0,
     agrees |-> 0, disagrees |-> 0, voters |-> <<>>, __v |-> 0]

\* factSchema: the document new Fact({content, publishedAt}) saves.
factSchema(content, publishedAt) ==
    [content |-> content, publishedAt |-> publishedAt,
     agrees |-> 0, disagrees |-> 0, voters |-> <<>>, __v |-> 0]

NoReq == [id |-> 0, userId |-> NONE, type |-> NONE]
NoResp == [status |-> 0, kind |-> NONE, hasVoted |-> FALSE, previousVote |-> NONE]

Response(status, kind) ==
    [status |-> status, kind |-> kind, hasVoted |-> FALSE, previousVote |-> NONE]

\* The response to a GET of the current fact: body holds the JSON documents sent.
NoGet == [status |-> 0, kind |-> NONE, body |-> <<>>]

GetResponse(status, kind, body) == [status |-> status, kind |-> kind, body |-> body]

\* res.json(fact) of a Mongoose document: toJSON() keeps every path of the schema.
res_json(id, fact) ==
    [_id |-> id, content |-> fact.content, publishedAt |-> fact.publishedAt,
     agrees |-> fact.agrees, disagrees |-> fact.disagrees,
     voters |-> fact.voters, __v |-> fact.__v]

findOne_Natural(fs) == {id \in DOMAIN fs : id = 1}

\* Fact.findOne().sort({ publishedAt: -1 }): the ids findOne may return, those of
\* the documents with the greatest publishedAt (the order among equals is not defined).
findOne(fs) ==
    {id \in DOMAIN fs : \A j \in DOMAIN fs : fs[j].publishedAt <= fs[id].publishedAt}

\* The route runs checkDatabaseReady (index.js) or the if (!isReady) of GET (part_003).
Gated(route) == gate = "all" \/ (gate = "get" /\ route = "get")

checkDatabaseReady_Open(route) == TRUE

\* checkDatabaseReady: next() is called, unless the route is gated and !isReady.
checkDatabaseReady(route) == Gated(route) => isReady

\* fact.voters.find(v => v.userId === userId): the index of the first match, 0 for none.
existingVote(voters, userId) ==
    LET S == {i \in 1..Len(voters) : voters[i].userId = userId}
    IN  IF S = {} THEN 0 ELSE CHOOSE i \in S : \A j \in S : i <= j

\* Variant A: if (!type || !userId) ...; if (!['agree','disagree'].includes(type)) ...
ValidateA(type, userId) ==
    IF type = NONE \/ userId = NONE THEN "required"
    ELSE IF type \notin VoteTypes THEN "invalid"
    ELSE "ok"

\* Variant A: a repeat vote is rejected when existingVote.vote === type.
IsDuplicateA(vote, type) == vote = type

IsDuplicateB_SameChoiceOnly(vote, type) == vote = type

\* Variant B: a repeat vote is rejected whenever existingVote is found.
IsDuplicateB(vote, type) == TRUE

\* Variant A: res.status(400).json({ message: 'Already voted' }).
DuplicateRespA(vote) == Response(400, "duplicate")

DuplicateRespB_NoPrior(vote) == Response(400, "duplicate")

\* Variant B: res.status(400).json({ message, hasVoted: true, previousVote: existingVote.vote }).
DuplicateRespB(vote) ==
    [status |-> 400, kind |-> "duplicate", hasVoted |-> TRUE, previousVote |-> vote]

\* Variant A, the document's changes before save: the previous vote's counter --,
\* existingVote.vote = type, or voters.push; then the counter of type ++.
ChangesA(fact, i, userId, type) ==
    LET old == IF i = 0 THEN NONE ELSE fact.voters[i].vote
        decA == i # 0 /\ old = "agree"
        decD == i # 0 /\ old # "agree"
        incA == type = "agree"
        incD == type # "agree"
    IN  [dirtyAgrees |-> decA \/ incA,
         agrees |-> fact.agrees - (IF decA THEN 1 ELSE 0) + (IF incA THEN 1 ELSE 0),
         dirtyDisagrees |-> decD \/ incD,
         disagrees |-> fact.disagrees - (IF decD THEN 1 ELSE 0) + (IF incD THEN 1 ELSE 0),
         push |-> IF i = 0 THEN <<[userId |-> userId, vote |-> type]>> ELSE <<>>,
         setIdx |-> i,
         setVote |-> IF i = 0 THEN NONE ELSE type,
         whereV |-> IF i = 0 THEN -1 ELSE fact.__v]

\* Variant B, the document's changes before save: agrees += 1 or disagrees += 1
\* (neither for another type), then voters.push({ userId, vote: type }).
ChangesB(fact, userId, type) ==
    [dirtyAgrees |-> type = "agree",
     agrees |-> fact.agrees + (IF type = "agree" THEN 1 ELSE 0),
     dirtyDisagrees |-> type = "disagree",
     disagrees |-> fact.disagrees + (IF type = "disagree" THEN 1 ELSE 0),
     push |-> <<[userId |-> userId, vote |-> type]>>,
     setIdx |-> 0,
     setVote |-> NONE,
     whereV |-> -1]

ApplyDelta_Republish(fact, d) ==
    [fact EXCEPT !.publishedAt = @ + 1, !.voters = @ \o d.push]

\* The update of fact.save() applied by the collection to the stored document.
\* An update guarded by __v that finds another __v matches nothing (VersionError).
ApplyDelta(fact, d) ==
    IF d.whereV # -1 /\ fact.__v # d.whereV THEN fact
    ELSE [fact EXCEPT
            !.agrees = IF d.dirtyAgrees THEN d.agrees ELSE @,
            !.disagrees = IF d.dirtyDisagrees THEN d.disagrees ELSE @,
            !.voters = (IF d.setIdx # 0 THEN [@ EXCEPT ![d.setIdx].vote = d.setVote] ELSE @)
                       \o d.push,
            !.__v = IF d.push # <<>> THEN @ + 1 ELSE @]

----------------------------------------------------------------------------
\* The sequence s without its k-th element.
RemoveAt(s, k) == SubSeq(s, 1, k - 1) \o SubSeq(s, k + 1, Len(s))

Request(id, userId, type) == [id |-> id, userId |-> userId, type |-> type]

\* res.status(...).json(...): the handler answers and is finished.
Answer(r, response) ==
    /\ last' = [req |-> r, resp |-> response]
    /\ UNCHANGED <<facts, inflight, okVotes>>

\* src/server/index.js, app.patch('/api/fact/:id/vote'): the handler up to
\* fact.save().maxTimeMS(5000), whose TypeError the catch block answers with 500
\* while the save it started is on its way.
VoteRequestA(id, userId, type) ==
    /\ variant = "A"
    /\ nreq < MaxReq
    /\ nreq' = nreq + 1
    /\ UNCHANGED <<variant, createResp>>
    /\ UNCHANGED apiVars
    /\ IF ~checkDatabaseReady("vote")
         THEN Answer(Request(id, userId, type), Response(503, "unavailable"))
       ELSE IF ValidateA(type, userId) # "ok"
         THEN Answer(Request(id, userId, type), Response(400, ValidateA(type, userId)))
       ELSE IF id \notin DOMAIN facts
         THEN Answer(Request(id, userId, type), Response(404, "notfound"))
       ELSE LET fact == facts[id]
                i == existingVote(fact.voters, userId)
            IN  IF i # 0 /\ IsDuplicateA(fact.voters[i].vote, type)
                  THEN Answer(Request(id, userId, type), DuplicateRespA(fact.voters[i].vote))
                ELSE /\ inflight' = Append(inflight,
                                       [req |-> Request(id, userId, type),
                                        delta |-> ChangesA(fact, i, userId, type)])
                     /\ last' = [req |-> Request(id, userId, type),
                                 resp |-> Response(500, "typeerror")]
                     /\ UNCHANGED <<facts, okVotes>>

\* src/unnamed/part_002 (and part_003), app.patch('/api/fact/:id/vote'): the handler
\* up to await fact.save(). fact.voters of a null fact throws: the catch answers 400.
VoteRequestB(id, userId, type) ==
    /\ variant = "B"
    /\ nreq < MaxReq
    /\ nreq' = nreq + 1
    /\ UNCHANGED <<variant, createResp>>
    /\ UNCHANGED apiVars
    /\ IF id \notin DOMAIN facts
         THEN Answer(Request(id, userId, type), Response(400, "nullfact"))
       ELSE LET fact == facts[id]
                i == existingVote(fact.voters, userId)
            IN  IF i # 0 /\ IsDuplicateB(fact.voters[i].vote, type)
                  THEN Answer(Request(id, userId, type), DuplicateRespB(fact.voters[i].vote))
                ELSE /\ inflight' = Append(inflight,
                                       [req |-> Request(id, userId, type),
                                        delta |-> ChangesB(fact, userId, type)])
                     /\ UNCHANGED <<facts, last, okVotes>>

\* The update started by the k-th awaited fact.save() reaches the collection.
\* Variant B then answers res.json(updatedFact); variant A has answered already.
VoteSave(k) ==
    /\ k \in 1..Len(inflight)
    /\ LET r == inflight[k].req
       IN  /\ facts' = [facts EXCEPT ![r.id] = ApplyDelta(@, inflight[k].delta)]
           /\ inflight' = RemoveAt(inflight, k)
           /\ IF variant = "B"
                THEN /\ last' = [req |-> r, resp |-> Response(200, "ok")]
                     /\ okVotes' = IF r.type \in VoteTypes
                                     THEN [okVotes EXCEPT ![r.id][r.type] = @ + 1]
                                     ELSE okVotes
                ELSE UNCHANGED <<last, okVotes>>
    /\ UNCHANGED <<variant, nreq, createResp>>
    /\ UNCHANGED apiVars

contentRequired_Never(content) == FALSE

\* if (!req.body.content) in index.js; content: { required: true } of factSchema,
\* which fails the validation of save() for a missing or empty string.
contentRequired(content) == content = NONE

\* app.post('/api/fact'). Variant A checks !req.body.content itself and its
\* fact.save().maxTimeMS(5000) throws after the insert was started; in variant B
\* the schema's required content fails the save of an empty content.
CreateFact(content) ==
    /\ UNCHANGED <<variant, inflight, nreq, last, okVotes, gate, isReady, now, getResp>>
    /\ createReq' = content
    /\ IF ~checkDatabaseReady("create")
         THEN /\ createResp' = Response(503, "unavailable")
              /\ UNCHANGED facts
       ELSE IF contentRequired(content)
         THEN /\ createResp' = Response(400, IF variant = "A" THEN "required" ELSE "validation")
              /\ UNCHANGED facts
         ELSE /\ facts' = Append(facts, factSchema(content, now))
              /\ createResp' = IF variant = "A" THEN Response(400, "typeerror")
                                                ELSE Response(201, "created")

noFact_ServerError == GetResponse(500, "error", <<>>)

noFact_NotFound == GetResponse(404, "notfound", <<>>)

\* The answer of GET without a Fact: part_002 and the first server of part_003 send
\* res.json(fact) with fact null, the servers with a readiness flag send
\* res.json({ message: 'No facts found' }).
noFact == GetResponse(200, IF gate = "none" THEN "null" ELSE "nofacts", <<>>)

\* GET /api/facts (GET /api/fact/current in the first server of part_003).
GetCurrent ==
    /\ UNCHANGED <<variant, facts, inflight, nreq, last, okVotes, createResp,
                   gate, isReady, now, createReq>>
    /\ IF ~checkDatabaseReady("get")
         THEN getResp' = GetResponse(503, "unavailable", <<>>)
       ELSE IF facts = <<>>
         THEN getResp' = noFact
         ELSE \E id \in findOne(facts) :
                 getResp' = GetResponse(200, "fact", <<res_json(id, facts[id])>>)

\* mongoose.connection.on('connected'): isReady = true.
onConnected ==
    /\ gate # "none"
    /\ isReady' = TRUE
    /\ UNCHANGED <<variant, facts, inflight, nreq, last, okVotes, createResp,
                   gate, now, createReq, getResp>>

\* mongoose.connection.on('error'): isReady = false.
onError ==
    /\ gate # "none"
    /\ isReady' = FALSE
    /\ UNCHANGED <<variant, facts, inflight, nreq, last, okVotes, createResp,
                   gate, now, createReq, getResp>>

\* Time passes: the next new Date() is later.
Tick ==
    /\ now < MaxClock
    /\ now' = now + 1
    /\ UNCHANGED <<variant, facts, inflight, nreq, last, okVotes, createResp,
                   gate, isReady, createReq, getResp>>

\* connectWithRetry() up to its first await: let retries = 0, mongoose.connect().
\* connectDB() of part_002 and the bare mongoose.connect() of part_003 likewise.
NewLoop == [pc |-> "connect", retries |-> 0, delay |-> 0, result |-> NONE]

\* An invocation that has returned, after its connect succeeded ("connected") or
\* after its last attempt failed ("failed").
LoopDone(result) == [pc |-> "done", retries |-> 0, delay |-> 0, result |-> result]

----------------------------------------------------------------------------
\* One server for each set of request handlers: the handlers of the two copies in
\* index.js are the same, and so are those of part_002 and of part_003's first server.
ServingServers == {"index_1", "part_002", "part_003_2"}

\* The server is up and connected: no Fact, no request yet. (In src/server/index.js
\* the server listens once the 'connected' handler has set isReady.)
Init ==
    /\ variant \in Variants
    /\ facts = <<>>
    /\ inflight = <<>>
    /\ nreq = 0
    /\ last = [req |-> NoReq, resp |-> NoResp]
    /\ okVotes = [id \in StoreIds |-> [t \in VoteTypes |-> 0]]
    /\ createResp = NoResp
    /\ gate \in (IF variant = "A" THEN {"all"} ELSE {"get", "none"})
    /\ isReady = TRUE
    /\ now = 0
    /\ createReq = NONE
    /\ getResp = NoGet
    /\ server \in {s \in ServingServers : serverVariant(s) = variant /\ serverGate(s) = gate}
    /\ proc = "running"
    /\ http = "listening"
    /\ readyState = 1
    /\ loops = <<LoopDone("connected")>>
    /\ listeners = {}
    /\ starts = (IF server = "index_1" THEN 1 ELSE 0)
    /\ shutdown = {}
    /\ signals = 0
    /\ handlers = <<>>
    /\ saveError = NONE
    /\ marker = NONE
    /\ calls = <<>>

\* Requests are handled concurrently: a handler may start while others await.
Next ==
    \/ \E id \in FactIds, userId \in UserIds, type \in TypeInputs :
          /\ Len(inflight) < MaxInFlight
          /\ VoteRequestA(id, userId, type)
          /\ UNCHANGED outerVars
    \/ \E id \in FactIds, userId \in UserIds, type \in TypeInputs :
          /\ Len(inflight) < MaxInFlight
          /\ VoteRequestB(id, userId, type)
          /\ UNCHANGED outerVars
    \/ \E k \in 1..MaxInFlight : VoteSave(k) /\ UNCHANGED outerVars
    \/ \E content \in Contents :
          /\ Len(facts) < MaxFacts \/ content = NONE
          /\ CreateFact(content)
          /\ UNCHANGED outerVars

Spec == Init /\ [][Next]_vars

\* Requests are handled one at a time: a request starts when nothing is in flight
\* (in variant A, whose handler answers before its save arrives, after that save).
NextSeq ==
    \/ \E id \in FactIds, userId \in UserIds, type \in TypeInputs :
          /\ inflight = <<>>
          /\ VoteRequestA(id, userId, type)
          /\ UNCHANGED outerVars
    \/ \E id \in FactIds, userId \in UserIds, type \in TypeInputs :
          /\ inflight = <<>>
          /\ VoteRequestB(id, userId, type)
          /\ UNCHANGED outerVars
    \/ \E k \in 1..MaxInFlight : VoteSave(k) /\ UNCHANGED outerVars
    \/ \E content \in Contents : /\ inflight = <<>>
                                 /\ Len(facts) < MaxFacts \/ content = NONE
                                 /\ CreateFact(content)
                                 /\ UNCHANGED outerVars

SpecSeq == Init /\ [][NextSeq]_vars

\* The whole API with its readiness flag and its clock: reads of the current fact,
\* creates and votes arrive in any order, while connection events set the flag.
NextApi ==
    \/ \E id \in StoreIds, userId \in UserIds, type \in TypeInputs :
          /\ nreq < MaxApiReq
          /\ Len(inflight) < MaxInFlight
          /\ VoteRequestA(id, userId, type)
          /\ UNCHANGED outerVars
    \/ \E id \in StoreIds, userId \in UserIds, type \in TypeInputs :
          /\ nreq < MaxApiReq
          /\ Len(inflight) < MaxInFlight
          /\ VoteRequestB(id, userId, type)
          /\ UNCHANGED outerVars
    \/ \E k \in 1..MaxInFlight : VoteSave(k) /\ UNCHANGED outerVars
    \/ \E content \in Contents :
          /\ Len(facts) < MaxStore \/ content = NONE
          /\ CreateFact(content)
          /\ UNCHANGED outerVars
    \/ GetCurrent /\ UNCHANGED outerVars
    \/ onConnected /\ UNCHANGED outerVars
    \/ onError /\ UNCHANGED outerVars
    \/ Tick /\ UNCHANGED outerVars

SpecApi == Init /\ [][NextApi]_vars

----------------------------------------------------------------------------
\* The process around the request handlers: the connection to MongoDB, the retry
\* loop connectWithRetry, the connection events and the start of the HTTP server.
\* A loop is at one of its awaits: "connect" (await mongoose.connect, pending),
\* "resolved" or "rejected" (the promise has settled, the loop resumes next),
\* "wait" (await of the timer); "done" after its return.

\* What the process leaves alone apart from isReady.
storeVars == <<variant, facts, inflight, nreq, last, okVotes, createResp,
               gate, now, createReq, getResp>>

Min(a, b) == IF a < b THEN a ELSE b

maxRetries_Ten(s) == 10

\* const maxRetries = 5 in the first copy of index.js, 10 in the other servers.
maxRetries(s) == IF s = "index_1" THEN 5 ELSE 10

retryDelay_Uncapped(retries) == 1000 * 2^retries

\* const delay = Math.min(1000 * Math.pow(2, retries), 10000).
retryDelay(retries) == Min(1000 * 2^retries, 10000)

InProgress(l) == l.pc # "done"

\* mongoose.connection.on('disconnected') where it is registered: isReady = false,
\* then connectWithRetry(), in the first copy of index.js only if readyState === 0.
\* rs is the readyState the handler reads.
emitDisconnected_KeepsReady(ls, rs) ==
    /\ UNCHANGED isReady
    /\ IF hasRetry(server) /\ (server = "index_1" => rs = 0)
         THEN /\ loops' = Append(ls, NewLoop)
              /\ readyState' = 2
         ELSE /\ loops' = ls
              /\ readyState' = rs

emitDisconnected(ls, rs) ==
    /\ isReady' = (IF hasRetry(server) THEN FALSE ELSE isReady)
    /\ IF hasRetry(server) /\ (server = "index_1" => rs = 0)
         THEN /\ loops' = Append(ls, NewLoop)
              /\ readyState' = 2
         ELSE /\ loops' = ls
              /\ readyState' = rs

once_On(ls, l) == ls

\* mongoose.connection.once(): the listener is removed when it is called.
once(ls, l) == ls \ {l}

\* function startServer() in the first copy of index.js: app.listen().
startServer == http' = "listening" /\ starts' = starts + 1

\* The continuation of a settled promise runs before the next event is handled
\* (promise jobs come before timers and I/O callbacks), and the handlers of a signal
\* run one after the other: no event is handled while a loop whose connect has
\* settled has not resumed or while a handler of the signal has not run.
Idle ==
    /\ \A j \in DOMAIN loops : loops[j].pc \notin {"resolved", "rejected"}
    /\ handlers = <<>>

\* The awaited mongoose.connect() of loop i succeeds. A connection that was not
\* connected emits 'connected': isReady = true, and the once listener starts the server.
ConnectResolves(i) ==
    /\ proc = "running"
    /\ Idle
    /\ i \in DOMAIN loops
    /\ loops[i].pc = "connect"
    /\ readyState \in {0, 1, 2}
    /\ loops' = [loops EXCEPT ![i] = IF hasRetry(server) THEN [@ EXCEPT !.pc = "resolved"]
                                                          ELSE LoopDone("connected")]
    /\ readyState' = 1
    /\ IF readyState # 1
         THEN /\ isReady' = (IF hasRetry(server) THEN TRUE ELSE isReady)
              /\ IF "startServer" \in listeners
                   THEN startServer /\ listeners' = once(listeners, "startServer")
                   ELSE UNCHANGED <<http, listeners, starts>>
         ELSE UNCHANGED <<isReady, http, listeners, starts>>
    /\ UNCHANGED <<storeVars, server, proc, shutdown, signals, handlers, saveError, clientVars>>

\* The awaited mongoose.connect() of loop i fails. The connection is disconnected
\* again and may emit 'disconnected' (mongoose emits the event of a state change).
\* Nothing catches the rejection in the first server of part_003: the runtime
\* either warns or ends the process.
ConnectRejects(i, emit, fatal) ==
    /\ proc = "running"
    /\ Idle
    /\ i \in DOMAIN loops
    /\ loops[i].pc = "connect"
    /\ readyState \in {0, 2}
    /\ emit => Len(loops) < MaxLoops
    /\ fatal => server = "part_003_1"
    /\ LET ls == [loops EXCEPT ![i] = IF server = "part_003_1" THEN LoopDone("failed")
                                      ELSE [@ EXCEPT !.pc = "rejected"]]
       IN  IF emit THEN emitDisconnected(ls, 0)
           ELSE /\ loops' = ls
                /\ readyState' = 0
                /\ UNCHANGED isReady
    /\ proc' = IF fatal THEN "exit1" ELSE proc
    /\ UNCHANGED <<storeVars, server, http, listeners, starts, shutdown, signals, handlers,
                   saveError, clientVars>>

\* connectWithRetry resumes after a successful connect: isReady = true; return.
LoopResumes(i) ==
    /\ proc = "running"
    /\ i \in DOMAIN loops
    /\ loops[i].pc = "resolved"
    /\ isReady' = TRUE
    /\ loops' = [loops EXCEPT ![i] = LoopDone("connected")]
    /\ UNCHANGED <<storeVars, loopFrame, saveError, clientVars>>

\* The catch of connectWithRetry: retries++; at maxRetries isReady = false; return;
\* otherwise the loop awaits its timer. The catch of connectDB: process.exit(1).
LoopCatches(i) ==
    /\ proc = "running"
    /\ i \in DOMAIN loops
    /\ loops[i].pc = "rejected"
    /\ IF hasRetry(server)
         THEN LET retries == loops[i].retries + 1
              IN  IF retries = maxRetries(server)
                    THEN /\ isReady' = FALSE
                         /\ loops' = [loops EXCEPT ![i] = LoopDone("failed")]
                         /\ UNCHANGED proc
                    ELSE /\ loops' = [loops EXCEPT ![i] =
                                        [pc |-> "wait", retries |-> retries,
                                         delay |-> retryDelay(retries),
                                         result |-> NONE]]
                         /\ UNCHANGED <<isReady, proc>>
         ELSE /\ proc' = "exit1"
              /\ loops' = [loops EXCEPT ![i] = LoopDone("failed")]
              /\ UNCHANGED isReady
    /\ UNCHANGED <<storeVars, server, http, readyState, listeners, starts, shutdown,
                   signals, handlers, saveError, clientVars>>

\* The timer of loop i fires: while (retries < maxRetries), the next mongoose.connect().
LoopTimer(i) ==
    /\ proc = "running"
    /\ Idle
    /\ i \in DOMAIN loops
    /\ loops[i].pc = "wait"
    /\ IF loops[i].retries < maxRetries(server)
         THEN /\ loops' = [loops EXCEPT ![i].pc = "connect"]
              /\ readyState' = IF readyState = 0 THEN 2 ELSE readyState
         ELSE /\ loops' = [loops EXCEPT ![i] = LoopDone("failed")]
              /\ UNCHANGED readyState
    /\ UNCHANGED <<storeVars, isReady, server, proc, http, listeners, starts, shutdown,
                   signals, handlers, saveError, clientVars>>

\* The connection to MongoDB is lost: readyState 0 and the 'disconnected' event.
ConnectionLost ==
    /\ proc = "running"
    /\ Idle
    /\ readyState = 1
    /\ hasRetry(server) => Len(loops) < MaxLoops
    /\ emitDisconnected(loops, 0)
    /\ UNCHANGED <<storeVars, server, proc, http, listeners, starts, shutdown, signals, handlers,
                   saveError, clientVars>>

\* The connection reports an error: mongoose.connection.on('error').
ConnectionError ==
    /\ proc = "running"
    /\ Idle
    /\ onError
    /\ UNCHANGED outerVars

Signals == {"SIGTERM", "SIGINT"}

\* server.close(): the HTTP server stops accepting new connections.
serverClose == http' = IF http = "listening" THEN "closing" ELSE http

\* The handlers process.on registers for a signal, in the order of registration.
\*   "closeDb"  : mongoose.connection.close(cb), cb calls process.exit(0)
\*                (index.js 113-118 and its second copy, part_003 187-192)
\*   "graceful" : gracefulShutdown of startServer in the first copy of index.js,
\*                registered when the server starts
\*   "closeHttp": server.close(cb), cb closes the connection and exits
\*                (second copy of index.js, second server of part_003)
\*   "awaitBoth": gracefulShutdown of part_002
signalHandlers(s, sig) ==
    IF s = "index_1"
      THEN (IF sig = "SIGINT" THEN <<"closeDb">> ELSE <<>>)
           \o (IF starts > 0 THEN <<"graceful">> ELSE <<>>)
    ELSE IF s \in {"index_2", "part_003_2"}
      THEN (IF sig = "SIGINT" THEN <<"closeDb">> ELSE <<>>) \o <<"closeHttp">>
    ELSE IF s = "part_002" THEN <<"awaitBoth">>
    ELSE <<>>

\* The process receives a signal: its handlers will run one after the other.
\* Without a handler the signal ends the process.
Signal(sig) ==
    /\ proc = "running"
    /\ Idle
    /\ signals < MaxSignals
    /\ signals' = signals + 1
    /\ handlers' = signalHandlers(server, sig)
    /\ proc' = IF signalHandlers(server, sig) = <<>> THEN "killed" ELSE proc
    /\ UNCHANGED <<storeVars, isReady, server, http, readyState, loops, listeners, starts,
                   shutdown, saveError, clientVars>>

\* The next handler of the signal runs, up to its first callback or await.
\* shutdown holds what is then pending: "dbCallback" (a close of the connection whose
\* callback exits with 0), "dbAwait" (an awaited close), "httpCallback" (the callback
\* of server.close), "forceTimer". In part_002 await server.close() awaits the
\* server object, not its closing: gracefulShutdown goes on at once with
\* await mongoose.connection.close().
RunHandler ==
    /\ proc = "running"
    /\ handlers # <<>>
    /\ handlers' = Tail(handlers)
    /\ LET h == Head(handlers)
       IN  /\ readyState' = IF h \in {"closeDb", "awaitBoth"} THEN 3 ELSE readyState
           /\ IF h \in {"graceful", "closeHttp", "awaitBoth"}
                THEN serverClose
                ELSE UNCHANGED http
           /\ shutdown' = shutdown \cup
                  (IF h = "closeDb" THEN {"dbCallback"}
                   ELSE IF h = "graceful" THEN {"httpCallback", "forceTimer"}
                   ELSE IF h = "closeHttp" THEN {"httpCallback"}
                   ELSE {"dbAwait"})
    /\ UNCHANGED <<storeVars, isReady, server, proc, loops, listeners, starts, signals,
                   saveError, clientVars>>

\* The last connection of the closing HTTP server has ended: the callback of
\* server.close() runs and closes the connection to MongoDB.
HttpClosed ==
    /\ proc = "running"
    /\ Idle
    /\ http = "closing"
    /\ http' = "closed"
    /\ IF "httpCallback" \in shutdown
         THEN /\ readyState' = 3
              /\ shutdown' = (shutdown \ {"httpCallback"})
                                \cup {IF server = "index_1" THEN "dbAwait" ELSE "dbCallback"}
         ELSE UNCHANGED <<readyState, shutdown>>
    /\ UNCHANGED <<storeVars, isReady, server, proc, loops, listeners, starts, signals, handlers,
                   saveError, clientVars>>

\* The close of the connection finishes: a callback exits with 0, an awaited close
\* exits with 0, or with 1 from its catch if the close failed.
DbClosed(c, ok) ==
    /\ proc = "running"
    /\ Idle
    /\ c \in shutdown \cap {"dbCallback", "dbAwait"}
    /\ readyState = 3
    /\ readyState' = 0
    /\ proc' = IF c = "dbAwait" /\ ~ok THEN "exit1" ELSE "exit0"
    /\ shutdown' = shutdown \ {c}
    /\ UNCHANGED <<storeVars, isReady, server, http, loops, listeners, starts, signals, handlers,
                   saveError, clientVars>>

\* The timer of gracefulShutdown fires after 30 seconds: process.exit(1).
ForceTimer ==
    /\ proc = "running"
    /\ Idle
    /\ "forceTimer" \in shutdown
    /\ proc' = "exit1"
    /\ shutdown' = shutdown \ {"forceTimer"}
    /\ UNCHANGED <<storeVars, isReady, server, http, readyState, loops, listeners, starts,
                   signals, handlers, saveError, clientVars>>

\* The process has just loaded its program: the connection is being opened by the
\* first invocation, the servers other than the first copy of index.js listen.
InitProc ==
    /\ server \in Servers
    /\ variant = serverVariant(server)
    /\ gate = serverGate(server)
    /\ facts = <<>>
    /\ inflight = <<>>
    /\ nreq = 0
    /\ last = [req |-> NoReq, resp |-> NoResp]
    /\ okVotes = [id \in StoreIds |-> [t \in VoteTypes |-> 0]]
    /\ createResp = NoResp
    /\ isReady = FALSE
    /\ now = 0
    /\ createReq = NONE
    /\ getResp = NoGet
    /\ proc = "running"
    /\ http = (IF server = "index_1" THEN "off" ELSE "listening")
    /\ readyState = 2
    /\ loops = <<NewLoop>>
    /\ listeners = (IF server = "index_1" THEN {"startServer"} ELSE {})
    /\ starts = 0
    /\ shutdown = {}
    /\ signals = 0
    /\ handlers = <<>>
    /\ saveError = NONE
    /\ marker = NONE
    /\ calls = <<>>

\* The process: the retry loops, the connection events, the signals, and the
\* requests the listening server answers meanwhile.
NextProc ==
    \/ \E i \in 1..MaxLoops : ConnectResolves(i)
    \/ \E i \in 1..MaxLoops, emit \in BOOLEAN, fatal \in BOOLEAN :
          ConnectRejects(i, emit, fatal)
    \/ \E i \in 1..MaxLoops : LoopResumes(i)
    \/ \E i \in 1..MaxLoops : LoopCatches(i)
    \/ \E i \in 1..MaxLoops : LoopTimer(i)
    \/ ConnectionLost
    \/ ConnectionError
    \/ \E sig \in Signals : Signal(sig)
    \/ RunHandler
    \/ HttpClosed
    \/ \E c \in {"dbCallback", "dbAwait"}, ok \in BOOLEAN : DbClosed(c, ok)
    \/ ForceTimer
    \/ \E type \in TypeInputs :
          /\ proc = "running" /\ http = "listening" /\ Idle
          /\ nreq < MaxProcReq
          /\ VoteRequestA(1, "u1", type)
          /\ UNCHANGED outerVars
    \/ \E type \in TypeInputs :
          /\ proc = "running" /\ http = "listening" /\ Idle
          /\ nreq < MaxProcReq
          /\ VoteRequestB(1, "u1", type)
          /\ UNCHANGED outerVars
    \/ \E k \in 1..MaxInFlight :
          proc = "running" /\ Idle /\ VoteSave(k) /\ UNCHANGED outerVars
    \/ \E content \in Contents :
          /\ proc = "running" /\ http = "listening" /\ Idle
          /\ Len(facts) < MaxFacts \/ (content = NONE /\ createResp = NoResp)
          /\ CreateFact(content)
          /\ UNCHANGED outerVars

SpecProc == InitProc /\ [][NextProc]_vars

\* One step of the invocation i of connectWithRetry: its connect settles, it
\* resumes, or its timer fires.
LoopStep(i) ==
    \/ ConnectResolves(i)
    \/ \E emit \in BOOLEAN, fatal \in BOOLEAN : ConnectRejects(i, emit, fatal)
    \/ LoopResumes(i)
    \/ LoopCatches(i)
    \/ LoopTimer(i)

\* The connection alone: the retry loops and the connection events.
NextRetry ==
    \/ \E i \in 1..MaxLoops : ConnectResolves(i)
    \/ \E i \in 1..MaxLoops, emit \in BOOLEAN, fatal \in BOOLEAN :
          ConnectRejects(i, emit, fatal)
    \/ \E i \in 1..MaxLoops : LoopResumes(i)
    \/ \E i \in 1..MaxLoops : LoopCatches(i)
    \/ \E i \in 1..MaxLoops : LoopTimer(i)
    \/ ConnectionLost
    \/ ConnectionError

\* Every mongoose.connect() settles, every timer fires and every settled promise
\* resumes its loop: the event loop runs what is ready.
SpecRetry ==
    InitProc /\ [][NextRetry]_vars /\ \A i \in 1..MaxLoops : WF_vars(LoopStep(i))

----------------------------------------------------------------------------
\* The storage rejects a save (SpecFail): requests are handled one at a time.

\* The k-th awaited fact.save() of a vote is rejected. The no-changes servers answer
\* from their catch: res.status(400).json({ message: error.message }). The handler of
\* index.js has answered already from the TypeError of .maxTimeMS; nothing is
\* attached to the promise of the save, whose rejection reaches no handler.
VoteSaveFails(k) ==
    /\ k \in 1..Len(inflight)
    /\ inflight' = RemoveAt(inflight, k)
    /\ last' = IF variant = "B"
                 THEN [req |-> inflight[k].req, resp |-> Response(400, "saveerror")]
                 ELSE last
    /\ saveError' = "vote"
    /\ UNCHANGED <<variant, facts, nreq, okVotes, createResp, apiVars, procVars,
                   clientVars>>

\* POST /api/fact whose fact.save() is rejected: no document is inserted. The catch
\* of the no-changes servers answers 400; index.js has answered 400 from the
\* TypeError of .maxTimeMS.
CreateFactFails(content) ==
    /\ checkDatabaseReady("create")
    /\ ~contentRequired(content)
    /\ createReq' = content
    /\ createResp' = Response(400, IF variant = "A" THEN "typeerror" ELSE "saveerror")
    /\ saveError' = "create"
    /\ UNCHANGED <<variant, facts, inflight, nreq, last, okVotes, gate, isReady, now,
                   getResp, procVars, clientVars>>

NextFail ==
    \/ \E id \in FactIds, userId \in UserIds, type \in TypeInputs :
          /\ inflight = <<>>
          /\ VoteRequestA(id, userId, type)
          /\ saveError' = NONE
          /\ UNCHANGED <<procVars, clientVars>>
    \/ \E id \in FactIds, userId \in UserIds, type \in TypeInputs :
          /\ inflight = <<>>
          /\ VoteRequestB(id, userId, type)
          /\ saveError' = NONE
          /\ UNCHANGED <<procVars, clientVars>>
    \/ \E k \in 1..MaxInFlight : VoteSave(k) /\ UNCHANGED outerVars
    \/ \E k \in 1..MaxInFlight : VoteSaveFails(k)
    \/ \E content \in Contents :
          /\ inflight = <<>>
          /\ Len(facts) < MaxFacts \/ content = NONE
          /\ CreateFact(content)
          /\ saveError' = NONE
          /\ UNCHANGED <<procVars, clientVars>>
    \/ \E content \in Contents :
          /\ inflight = <<>>
          /\ CreateFactFails(content)

SpecFail == Init /\ [][NextFail]_vars

----------------------------------------------------------------------------
\* The browser (SpecClient): the page of src/unnamed/part_000 with a Fact loaded,
\* its localStorage, and the server that has the route the page reads the Fact
\* from, GET /api/fact/current (first server of part_003).

\* The userId the page keeps in localStorage.
ClientUser == "u1"

\* A call of handleVote: the choice, where it is ("sent": the request is on its
\* way, "handling": the server awaits its save, "answered": the response is on its
\* way, "done"), whether it has called fetch, and the response.
Call(type, pc, sent) == [type |-> type, pc |-> pc, sent |-> sent, resp |-> NoResp]

\* response.ok
ok(resp) == resp.status >= 200 /\ resp.status <= 299

\* handleVote(type) up to await fetch(): with a marker in localStorage it alerts and
\* returns, otherwise it sends PATCH /api/fact/:id/vote with { type, userId }.
handleVote(type) ==
    /\ Len(calls) < MaxCalls
    /\ calls' = Append(calls, IF marker # NONE THEN Call(type, "done", FALSE)
                                               ELSE Call(type, "sent", TRUE))
    /\ UNCHANGED <<variant, facts, inflight, nreq, last, okVotes, createResp, apiVars,
                   procVars, saveError, marker>>

\* The request of call c reaches the server: the vote handler runs up to its answer
\* or to await fact.save().
ServerReceives(c) ==
    /\ c \in DOMAIN calls
    /\ calls[c].pc = "sent"
    /\ VoteRequestB(1, ClientUser, calls[c].type)
    /\ calls' = [calls EXCEPT ![c] = IF inflight' # inflight
                                       THEN [@ EXCEPT !.pc = "handling"]
                                       ELSE [@ EXCEPT !.pc = "answered",
                                                      !.resp = last'.resp]]
    /\ UNCHANGED <<procVars, saveError, marker>>

\* The save of the request of call c arrives and the server answers.
ServerSaves(c, k) ==
    /\ c \in DOMAIN calls
    /\ calls[c].pc = "handling"
    /\ k \in DOMAIN inflight
    /\ inflight[k].req.type = calls[c].type
    /\ VoteSave(k)
    /\ calls' = [calls EXCEPT ![c] = [@ EXCEPT !.pc = "answered", !.resp = last'.resp]]
    /\ UNCHANGED <<procVars, saveError, marker>>

\* handleVote resumes with the response: on response.ok the marker becomes the
\* choice of the call, on result.hasVoted it becomes result.previousVote.
ClientReceives(c) ==
    /\ c \in DOMAIN calls
    /\ calls[c].pc = "answered"
    /\ marker' = IF ok(calls[c].resp) THEN calls[c].type
                 ELSE IF calls[c].resp.hasVoted THEN calls[c].resp.previousVote
                 ELSE marker
    /\ calls' = [calls EXCEPT ![c].pc = "done"]
    /\ UNCHANGED <<variant, facts, inflight, nreq, last, okVotes, createResp, apiVars,
                   procVars, saveError>>

\* The user clears the site data of the browser.
ClearMarker ==
    /\ marker # NONE
    /\ marker' = NONE
    /\ UNCHANGED <<variant, facts, inflight, nreq, last, okVotes, createResp, apiVars,
                   procVars, saveError, calls>>

\* The first server of part_003 is up with one Fact, which the page has loaded.
InitClient ==
    /\ server = "part_003_1"
    /\ variant = serverVariant(server)
    /\ gate = serverGate(server)
    /\ facts = <<factSchema("text", 0)>>
    /\ inflight = <<>>
    /\ nreq = 0
    /\ last = [req |-> NoReq, resp |-> NoResp]
    /\ okVotes = [id \in StoreIds |-> [t \in VoteTypes |-> 0]]
    /\ createResp = NoResp
    /\ isReady = FALSE
    /\ now = 0
    /\ createReq = NONE
    /\ getResp = NoGet
    /\ proc = "running"
    /\ http = "listening"
    /\ readyState = 1
    /\ loops = <<LoopDone("connected")>>
    /\ listeners = {}
    /\ starts = 0
    /\ shutdown = {}
    /\ signals = 0
    /\ handlers = <<>>
    /\ saveError = NONE
    /\ marker = NONE
    /\ calls = <<>>

NextClient ==
    \/ \E type \in VoteTypes : handleVote(type)
    \/ \E c \in 1..MaxCalls : ServerReceives(c)
    \/ \E c \in 1..MaxCalls, k \in 1..MaxCalls : ServerSaves(c, k)
    \/ \E c \in 1..MaxCalls : ClientReceives(c)
    \/ ClearMarker

SpecClient == InitClient /\ [][NextClient]_vars

----------------------------------------------------------------------------
\* Vocabulary of the properties.

\* No handler is between its findById and the arrival of its save.
Quiescent == inflight = <<>>

HasVote(fact, userId) == existingVote(fact.voters, userId) # 0

\* The choice recorded for userId: the entry voters.find returns.
RecordedVote(fact, userId) == fact.voters[existingVote(fact.voters, userId)].vote

Entries(fact, userId) == {i \in 1..Len(fact.voters) : fact.voters[i].userId = userId}

CountVotes(fact, type) == Cardinality({i \in 1..Len(fact.voters) : fact.voters[i].vote = type})

VotersOf(fact) == {fact.voters[i].userId : i \in 1..Len(fact.voters)}

\* Every entry is a real voter's valid choice, and no voter has two entries.
DistinctValidVoters(fact) ==
    /\ \A i \in 1..Len(fact.voters) :
          fact.voters[i].userId \in Users /\ fact.voters[i].vote \in VoteTypes
    /\ Cardinality(VotersOf(fact)) = Len(fact.voters)

----------------------------------------------------------------------------
\* C1 (as claimed; SpecSeq): with requests handled one at a time, after every
\* request every stored Fact has agrees + disagrees = number of entries in voters,
\* whatever the request bodies are.
C1_CountersMatchVoters ==
    Quiescent =>
        \A id \in DOMAIN facts :
            facts[id].agrees + facts[id].disagrees = Len(facts[id].voters)

\* C2 (as claimed; Spec): in every reachable persisted state a user identifier
\* appears at most once in a Fact's voters, under any interleaving of vote requests.
C2_VoterAtMostOnce ==
    \A id \in DOMAIN facts : \A u \in Users : Cardinality(Entries(facts[id], u)) <= 1

\* C3 (as claimed; Spec): once the vote requests of the one voter who voted on a
\* Fact, all with valid choices, have completed, exactly one choice is stored for
\* the voter and the voter contributes exactly 1 to agrees + disagrees.
C3_OneChoicePrevails ==
    Quiescent =>
        \A id \in DOMAIN facts : \A u \in Users :
            (/\ VotersOf(facts[id]) = {u}
             /\ \A i \in Entries(facts[id], u) : facts[id].voters[i].vote \in VoteTypes)
            => /\ \A i, j \in Entries(facts[id], u) :
                     facts[id].voters[i].vote = facts[id].voters[j].vote
               /\ facts[id].agrees + facts[id].disagrees = 1

\* C4 (as claimed, on the variant whose responses report success; Spec): after
\* concurrent vote requests of different voters on a Fact have completed, the
\* counters equal the numbers of agree and disagree votes answered with success
\* and every voter has one entry.
C4_NoLostUpdate ==
    (variant = "B" /\ Quiescent) =>
        \A id \in DOMAIN facts :
            DistinctValidVoters(facts[id]) =>
                /\ facts[id].agrees = okVotes[id]["agree"]
                /\ facts[id].disagrees = okVotes[id]["disagree"]
                /\ Len(facts[id].voters) = okVotes[id]["agree"] + okVotes[id]["disagree"]

\* On a step in which a vote request arrives (nreq' = nreq + 1): that request.
\* It either started a save, or it was answered at once.
ArrivingReq ==
    IF Len(inflight') > Len(inflight) THEN inflight'[Len(inflight')].req ELSE last'.req

\* The responses that reject a request without recording anything.
Rejections == {"required", "invalid", "notfound", "nullfact", "duplicate"}

\* C5 (as claimed; SpecSeq): when the request just answered is submitted again, the
\* first call (which was not rejected) has succeeded, the second is rejected as a
\* duplicate vote, and the stored Facts after the second call are those after the first.
C5_RepeatRejected ==
    [][(/\ nreq' = nreq + 1
        /\ nreq >= 1
        /\ ArrivingReq = last.req
        /\ last.resp.kind \notin Rejections)
       => (/\ last.resp.status = 200
           /\ last'.resp.kind = "duplicate"
           /\ inflight' = inflight
           /\ facts' = facts)]_vars

\* C6 (as claimed; SpecSeq): in the vote-changing variant, when a voter's agree was
\* the first vote on a Fact and the voter's disagree completes, both calls have
\* succeeded, agrees is back to 0, disagrees is 1, voters has the one entry and the
\* voter's recorded choice is disagree.
C6_ChangeVote ==
    [][(/\ variant = "A"
        /\ Len(inflight) = 1
        /\ inflight' = <<>>
        /\ inflight[1].req.type = "disagree"
        /\ inflight[1].req.userId \in Users
        /\ facts[inflight[1].req.id].voters
             = <<[userId |-> inflight[1].req.userId, vote |-> "agree"]>>
        /\ facts[inflight[1].req.id].agrees = 1
        /\ facts[inflight[1].req.id].disagrees = 0)
       => (/\ facts'[inflight[1].req.id].agrees = 0
           /\ facts'[inflight[1].req.id].disagrees = 1
           /\ facts'[inflight[1].req.id].voters
                = <<[userId |-> inflight[1].req.userId, vote |-> "disagree"]>>
           /\ okVotes'[inflight[1].req.id]["agree"] >= 1
           /\ last'.req = inflight[1].req
           /\ last'.resp.status = 200)]_vars

\* C7 (Spec): in the no-changes variant, a vote request that arrives when its voter
\* has a recorded vote on the Fact is rejected as a duplicate, with either choice,
\* and changes no stored Fact; and a recorded choice never changes or disappears.
C7_RepeatAlwaysRejected ==
    [][variant = "B" =>
        /\ (/\ nreq' = nreq + 1
            /\ ArrivingReq.id \in DOMAIN facts
            /\ HasVote(facts[ArrivingReq.id], ArrivingReq.userId))
           => /\ last'.req = ArrivingReq
              /\ last'.resp.kind = "duplicate"
              /\ inflight' = inflight
              /\ facts' = facts
        /\ \A id \in DOMAIN facts : \A u \in UserIds :
              HasVote(facts[id], u)
              => /\ HasVote(facts'[id], u)
                 /\ RecordedVote(facts'[id], u) = RecordedVote(facts[id], u)]_vars

\* C7 witness: the no-changes variant has rejected a voter's attempt to change a
\* recorded valid choice to the other one.
C7_Witness ==
    /\ variant = "B"
    /\ last.resp.kind = "duplicate"
    /\ last.req.type \in VoteTypes
    /\ last.resp.previousVote \in VoteTypes
    /\ last.req.type # last.resp.previousVote

C9_DistinctVotersCounted ==
    Quiescent =>
        \A id \in DOMAIN facts :
            DistinctValidVoters(facts[id]) =>
                /\ facts[id].agrees = CountVotes(facts[id], "agree")
                /\ facts[id].disagrees = CountVotes(facts[id], "disagree")
                /\ facts[id].agrees + facts[id].disagrees = Cardinality(VotersOf(facts[id]))
                /\ okVotes[id]["agree"] = CountVotes(facts[id], "agree")
                /\ okVotes[id]["disagree"] = CountVotes(facts[id], "disagree")

\* C10 (as claimed; Spec): agrees and disagrees of every stored Fact are
\* non-negative in every reachable persisted state.
C10_CountersNonNegative ==
    \A id \in DOMAIN facts : facts[id].agrees >= 0 /\ facts[id].disagrees >= 0

----------------------------------------------------------------------------
\* A body whose choice is neither 'agree' nor 'disagree', or whose choice or voter
\* identifier is missing.
InvalidBody(r) == r.type \notin VoteTypes \/ r.userId = NONE

\* C11 (as claimed; SpecSeq): a vote request whose choice is neither 'agree' nor
\* 'disagree', or whose choice or voter identifier is missing, is answered at once
\* with status 400 and starts no save, in every server variant.
C11_InvalidBodyRejected ==
    [][(nreq' = nreq + 1 /\ InvalidBody(ArrivingReq))
       => (/\ last'.req = ArrivingReq
           /\ last'.resp.status = 400
           /\ inflight' = inflight
           /\ facts' = facts)]_vars

\* C12 (as claimed; SpecApi): a vote request with a valid body that reaches its
\* handler and whose id matches no stored Fact is answered at once with status 404
\* and changes no stored Fact, in every server variant.
C12_UnknownIdNotFound ==
    [][(/\ nreq' = nreq + 1
        /\ checkDatabaseReady("vote")
        /\ ~InvalidBody(ArrivingReq)
        /\ ArrivingReq.id \notin DOMAIN facts)
       => (/\ last'.req = ArrivingReq
           /\ last'.resp.status = 404
           /\ inflight' = inflight
           /\ facts' = facts)]_vars

\* On a step that answers a POST /api/fact (a repeat of the last request with the
\* same answer and no new Fact leaves no trace).
CreateAnswered == <<createReq, createResp>>' # <<createReq, createResp>> \/ Len(facts') > Len(facts)

\* C13 (SpecApi): a create with empty or missing content that reaches its handler
\* is answered with a validation error, status 400, and the stored Facts are
\* unchanged; no stored Fact ever has an empty content.
C13_EmptyContentRejected ==
    [][/\ (/\ CreateAnswered
           /\ createReq' = NONE
           /\ checkDatabaseReady("create"))
          => (/\ createResp'.status = 400
              /\ createResp'.kind \in {"required", "validation"}
              /\ facts' = facts)
       /\ \A id \in DOMAIN facts' : facts'[id].content # NONE]_vars

\* C13 witness: with a Fact stored, a create without content was answered 400.
C13_Witness ==
    /\ facts # <<>>
    /\ createReq = NONE
    /\ createResp.status = 400

\* C14 (SpecApi): a create that is answered 201, or that stores anything, had a
\* non-empty content and adds exactly one Fact, under an id no stored Fact has,
\* with the given content, publishedAt the current time, agrees = 0, disagrees = 0
\* and empty voters, and leaves every stored Fact as it was.
C14_CreateAddsOneFact ==
    [][(\/ Len(facts') # Len(facts)
        \/ CreateAnswered /\ createResp'.status = 201)
       => (/\ createReq' # NONE
           /\ Len(facts') = Len(facts) + 1
           /\ Len(facts') \notin DOMAIN facts
           /\ facts'[Len(facts')].content = createReq'
           /\ facts'[Len(facts')].publishedAt = now
           /\ facts'[Len(facts')].agrees = 0
           /\ facts'[Len(facts')].disagrees = 0
           /\ facts'[Len(facts')].voters = <<>>
           /\ \A id \in DOMAIN facts : facts'[id] = facts[id])]_vars

\* C14 witness: a create was answered 201 at a later time than the first Fact's,
\* which has a vote: the new Fact is the second one and is untouched.
C14_Witness ==
    /\ createResp.status = 201
    /\ Len(facts) = 2
    /\ facts[1].voters # <<>>
    /\ facts[2].publishedAt > facts[1].publishedAt
    /\ facts[2].content = createReq
    /\ facts[2].voters = <<>>

\* On a step that answers a GET of the current fact with another answer than the
\* last one.
GetAnswered == getResp' # getResp

\* C15 (SpecApi): a current-fact request that reaches its handler on a non-empty
\* store is answered with a stored Fact, as it is stored, whose publishedAt is the
\* maximum (so of Facts created at t1 < t2 never the one of t1); and a step that
\* creates no Fact, a vote in particular, does not change which Facts are the latest.
C15_CurrentIsLatest ==
    [][/\ (GetAnswered /\ checkDatabaseReady("get") /\ facts # <<>>)
          => (/\ getResp'.status = 200
              /\ getResp'.kind = "fact"
              /\ Len(getResp'.body) = 1
              /\ getResp'.body[1]._id \in DOMAIN facts
              /\ getResp'.body[1] = res_json(getResp'.body[1]._id, facts[getResp'.body[1]._id])
              /\ \A j \in DOMAIN facts :
                     facts[j].publishedAt <= getResp'.body[1].publishedAt)
       /\ Len(facts') = Len(facts) => findOne(facts') = findOne(facts)]_vars

\* C15 witness: of two Facts created at t1 < t2, the first of which has a vote, the
\* current-fact request returned the second.
C15_Witness ==
    /\ Len(facts) = 2
    /\ facts[1].publishedAt < facts[2].publishedAt
    /\ facts[1].voters # <<>>
    /\ getResp.kind = "fact"
    /\ getResp.body[1]._id = 2

\* C16 (SpecApi): a current-fact request that reaches its handler on an empty store
\* is answered with a result that says there is no Fact (null, or the message
\* 'No facts found') under the success status, not with an error; and no
\* current-fact request modifies the store or starts a save.
C16_EmptyStoreNoFact ==
    [][GetAnswered
       => (/\ facts' = facts
           /\ inflight' = inflight
           /\ (checkDatabaseReady("get") /\ facts = <<>>)
                 => (/\ getResp'.status = 200
                     /\ getResp'.kind \in {"null", "nofacts"}
                     /\ getResp'.body = <<>>))]_vars

\* C16 witness: the store is empty and the current-fact request was answered with
\* the message 'No facts found' by a server whose flag is up.
C16_Witness ==
    /\ facts = <<>>
    /\ isReady
    /\ getResp.kind = "nofacts"
    /\ getResp.status = 200

\* C17 (as claimed; SpecApi): the current-fact endpoint, when its handler runs,
\* responds 200 with the Fact when at least one Fact exists and responds 404 when
\* no Fact exists.
C17_EmptyStore404 ==
    [][(GetAnswered /\ checkDatabaseReady("get"))
       => IF facts # <<>>
            THEN getResp'.status = 200 /\ getResp'.kind = "fact"
            ELSE getResp'.status = 404]_vars

\* C17 (amended; SpecApi): the current-fact endpoint, when its handler runs,
\* responds 200 with the Fact when at least one Fact exists, and responds 200 as
\* well when no Fact exists: with the body null in the servers without a readiness
\* flag, with the message 'No facts found' in the servers with one.
C17_EmptyStore200 ==
    [][(GetAnswered /\ checkDatabaseReady("get"))
       => IF facts # <<>>
            THEN getResp'.status = 200 /\ getResp'.kind = "fact"
            ELSE /\ getResp'.status = 200
                 /\ gate = "none" => getResp'.kind = "null"
                 /\ gate # "none" => getResp'.kind = "nofacts"]_vars

\* C17 witness: a server without a readiness flag answered the current-fact
\* request on an empty store with status 200 and the body null.
C17_Witness ==
    /\ facts = <<>>
    /\ gate = "none"
    /\ getResp.kind = "null"
    /\ getResp.status = 200

otherChoice(vote) ==
    IF vote = "agree" THEN "disagree" ELSE IF vote = "disagree" THEN "agree" ELSE vote

\* The document as it is in a store that differs in the choice each voter recorded.
SwapChoices(doc) ==
    [doc EXCEPT !.voters = [i \in 1..Len(@) |-> [@[i] EXCEPT !.vote = otherChoice(@)]]]

\* C18 (as claimed; SpecApi): the response to a current-fact request does not show
\* the voters' choices: for a Fact with agrees = disagrees whose voters are distinct
\* and have valid choices, the response is the one
\* the same request gets from the store in which every voter recorded the other
\* choice, whose agrees and disagrees are the same.
C18_ResponsesHideChoices ==
    \A i \in 1..Len(getResp.body) :
        (/\ DistinctValidVoters(getResp.body[i])
         /\ getResp.body[i].agrees = getResp.body[i].disagrees)
        => res_json(getResp.body[i]._id, SwapChoices(getResp.body[i])) = getResp.body[i]

\* C19 (SpecApi): no step deletes a Fact or changes the id, content or publishedAt
\* of a stored Fact; a vote request writes nothing when it arrives, whether it is
\* rejected or starts a save, and its save changes no other Fact than its own.
C19_VoteFrame ==
    [][/\ Len(facts') >= Len(facts)
       /\ \A id \in DOMAIN facts :
             /\ facts'[id].content = facts[id].content
             /\ facts'[id].publishedAt = facts[id].publishedAt
       /\ nreq' = nreq + 1 => facts' = facts
       /\ Len(inflight') < Len(inflight)
             => \E k \in 1..Len(inflight) :
                   /\ inflight' = RemoveAt(inflight, k)
                   /\ Len(facts') = Len(facts)
                   /\ \A id \in DOMAIN facts \ {inflight[k].req.id} :
                         facts'[id] = facts[id]]_vars

\* C19 witness: of two Facts created at different times, the first has a recorded
\* vote and the second is as created, and the last vote request was rejected as a
\* duplicate.
C19_Witness ==
    /\ Len(facts) = 2
    /\ facts[1].voters # <<>>
    /\ facts[1].publishedAt # facts[2].publishedAt
    /\ facts[2] = factSchema(facts[2].content, facts[2].publishedAt)
    /\ last.resp.kind = "duplicate"

\* C20 (SpecApi): while isReady is false, a current-fact, create or vote request on
\* a route that checks the flag is answered 503, carries no Fact, starts no save
\* and leaves the stored Facts unchanged; while isReady is true no request is
\* answered 503 by the gate.
C20_ReadinessGate ==
    [][/\ (nreq' = nreq + 1 /\ Gated("vote") /\ ~isReady)
          => (/\ last'.resp.status = 503
              /\ inflight' = inflight
              /\ facts' = facts)
       /\ (CreateAnswered /\ Gated("create") /\ ~isReady)
          => (createResp'.status = 503 /\ facts' = facts)
       /\ (GetAnswered /\ Gated("get") /\ ~isReady)
          => (getResp'.status = 503 /\ getResp'.body = <<>> /\ facts' = facts)
       /\ (nreq' = nreq + 1 /\ isReady)
          => (Len(inflight') > Len(inflight) \/ last'.resp.status # 503)
       /\ (CreateAnswered /\ isReady) => createResp'.status # 503
       /\ (GetAnswered /\ isReady) => getResp'.status # 503]_vars

\* C20 witness: with a Fact stored and isReady false, the server that gates every
\* route has answered a vote, a create and a current-fact request with 503.
C20_Witness ==
    /\ gate = "all"
    /\ ~isReady
    /\ facts # <<>>
    /\ last.resp.status = 503
    /\ createResp.status = 503
    /\ getResp.status = 503

----------------------------------------------------------------------------
\* The process, its connection and its shutdown (SpecProc).

\* C21: no error terminates the process. As long as no signal has been sent to it,
\* the process is running, whatever request was answered with an error and
\* whatever connection attempt has failed.
C21_ErrorsKeepProcessRunning == signals = 0 => proc = "running"

\* C22: when the save of a vote or of a create is rejected by the storage, the
\* client has been answered 503 (under SpecFail).
C22_SaveFailure503 ==
    /\ saveError = "vote" => last.resp.status = 503
    /\ saveError = "create" => createResp.status = 503

\* The state of the retry loops (SpecRetry, SpecProc).
RetryLoops == IF hasRetry(server) THEN DOMAIN loops ELSE {}

\* The bound of the attempts the claim gives: 5 in the first copy, 10 elsewhere.
AttemptBound == IF server = "index_1" THEN 5 ELSE 10

\* One step of the loops in which invocation i of connectWithRetry
\*  - has made at most AttemptBound attempts (retries failed ones and, unless it is
\*    waiting or catching, the current one),
\*  - returns only from the resumption after a successful connect, with isReady
\*    true, or from the catch of the failure number AttemptBound, with isReady false,
\*  - waits only after a failure that is not the last one.
RetryStep(i) ==
    LET l == loops[i]
        n == loops'[i]
    IN  /\ InProgress(l) => l.retries < AttemptBound
        /\ (InProgress(l) /\ ~InProgress(n)) =>
              \/ l.pc = "resolved" /\ n.result = "connected" /\ isReady'
              \/ /\ l.pc = "rejected" /\ l.retries + 1 = AttemptBound
                 /\ n.result = "failed" /\ ~isReady'
        /\ (l.pc # "wait" /\ n.pc = "wait") =>
              l.pc = "rejected" /\ n.retries = l.retries + 1 /\ n.retries < AttemptBound
        /\ (l.pc = "resolved" /\ n.pc # "resolved") => ~InProgress(n)

\* C23: one invocation of connectWithRetry terminates after at most maxRetries
\* attempts (5 in the first copy of index.js, 10 elsewhere): it returns with
\* isReady = true right after its first successful attempt or with isReady = false
\* after the last failure, it never waits after the last failure, and every
\* invocation returns (or the process has ended).
C23_RetryTerminates ==
    /\ [][\A i \in RetryLoops : RetryStep(i)]_vars
    /\ \A i \in 1..MaxLoops :
          (i \in RetryLoops /\ InProgress(loops[i]))
             ~> (proc # "running" \/ (i \in DOMAIN loops /\ ~InProgress(loops[i])))

\* An invocation has returned after its last failed attempt and isReady is false.
C23_Witness ==
    \E i \in RetryLoops : loops[i].result = "failed" /\ ~isReady

\* The waits the claim lists: 2000, 4000, 8000 and then 10000 ms.
ListedWait(k) ==
    IF k = 1 THEN 2000 ELSE IF k = 2 THEN 4000 ELSE IF k = 3 THEN 8000 ELSE 10000

\* C24: the wait that follows the k-th consecutive failed attempt (1 <= k < maxRetries)
\* is min(1000 * 2^k, 10000) ms, that is 2000, 4000, 8000, then 10000: it is never
\* shorter than the wait before it and never longer than 10000 ms.
C24_RetryDelays ==
    [][\A i \in RetryLoops :
          (loops[i].pc # "wait" /\ loops'[i].pc = "wait") =>
              LET k == loops'[i].retries
                  delay == loops'[i].delay
              IN  /\ k >= 1 /\ k < AttemptBound
                  /\ delay = ListedWait(k)
                  /\ delay >= loops[i].delay
                  /\ delay <= 10000]_vars

\* A loop waits 10000 ms after its fifth failure, having waited 8000 ms and less before.
C24_Witness ==
    \E i \in RetryLoops :
        loops[i].pc = "wait" /\ loops[i].retries = 5 /\ loops[i].delay = 10000

\* C25: whatever the order of the connection events and of the steps of the retry
\* loops, isReady is true only while the connection is connected, and it becomes
\* true only by a successful connection: in a step in which an awaited connect
\* succeeds or in which the loop resumes after one.
C25_ReadyOnlyWhileConnected ==
    [][/\ isReady' => readyState' = 1
       /\ (~isReady /\ isReady') =>
             \E i \in RetryLoops :
                 \/ loops[i].pc = "connect" /\ loops'[i].pc = "resolved"
                 \/ loops[i].pc = "resolved" /\ loops'[i].pc = "done"]_vars

\* The connection was lost after a loop had set isReady: the flag is false again
\* while a later invocation is connecting.
C25_Witness ==
    /\ hasRetry(server)
    /\ ~isReady
    /\ readyState = 2
    /\ \E i \in RetryLoops : loops[i].result = "connected"

\* C26: at most one invocation of connectWithRetry is in progress at any time.
C26_SingleRetryLoop ==
    Cardinality({i \in RetryLoops : InProgress(loops[i])}) <= 1

\* C27: in the first copy of index.js the HTTP server starts listening only in the
\* step in which the connection becomes connected, the first 'connected' event
\* starts it, and startServer runs at most once: later reconnections do not run it
\* again, and without a connection the server never listens.
C27_StartOnceAfterConnected ==
    [][server = "index_1" =>
          /\ (http = "off" /\ http' # "off") => (readyState # 1 /\ readyState' = 1)
          /\ (readyState # 1 /\ readyState' = 1 /\ starts = 0) =>
                (starts' = 1 /\ http' = "listening")
          /\ starts' <= 1
          /\ http' # "off" => starts' = 1]_vars

\* The connection was lost and a second invocation has connected again: the server
\* has been started once.
C27_Witness ==
    /\ server = "index_1"
    /\ Len(loops) = 2
    /\ loops[2].result = "connected"
    /\ readyState = 1
    /\ starts = 1
    /\ http = "listening"

\* C28: no handler closes the connection to MongoDB, and none exits with code 0,
\* while the HTTP server is still accepting connections: the HTTP server is closed
\* first.
C28_HttpStopsBeforeDbCloses ==
    (readyState = 3 \/ proc = "exit0") => http # "listening"

----------------------------------------------------------------------------
\* The browser (SpecClient).

\* The calls of handleVote whose request has been sent and not yet answered to the page.
Pending == {c \in DOMAIN calls : calls[c].sent /\ calls[c].pc # "done"}

\* C29: handleVote issues no request when the Fact has a marker in localStorage,
\* and two overlapping handleVote calls do not both send a request: at most one
\* request of the page is under way.
C29_OneRequest ==
    [][/\ (Len(calls') > Len(calls) /\ marker # NONE) => ~calls'[Len(calls')].sent
       /\ Cardinality(Pending') <= 1]_vars

\* C30: once the calls of handleVote have completed, a marker that is set equals the
\* choice the server has recorded for the userId on the Fact.
C30_MarkerIsRecordedChoice ==
    (marker # NONE /\ Pending = {} /\ inflight = <<>>) =>
        /\ HasVote(facts[1], ClientUser)
        /\ marker = RecordedVote(facts[1], ClientUser)

====
